---- MODULE Spec2Model ----
(***************************************************************************)
(* TeleDrive-RS (src/src/main.rs): the metadata store (Database), the      *)
(* session slots, and the background tasks spawned by the UI callbacks     *)
(* (authenticate, upload, refresh), as one state machine.                  *)
(*                                                                         *)
(* Tasks run on the multi-threaded tokio runtime (#[tokio::main]), so the  *)
(* segments of different tasks interleave freely.  One action is one       *)
(* segment of a task: the code from the completion of one .await (whose    *)
(* outcome is an input of the action) up to the start of the next.         *)
(*                                                                         *)
(* The window (AppWindow, generated by slint::include_modules!()) is not   *)
(* part of the source: the model keeps, for every task and callback, the   *)
(* calls it has made on the window, in order.  upgrade() on the weak      *)
(* handle is taken to return the window, which main holds for as long as   *)
(* it is in ui.run(), so every call guarded by it is made.                 *)
(***************************************************************************)
EXTENDS Integers, Sequences, FiniteSets, TLC

\* ---------------------------------------------------------------- bounds
MaxUploads == 2      \* upload tasks spawned in one run of the process
MaxAuths   == 2      \* authenticate tasks spawned in one run
MaxRefresh == 1      \* refresh tasks spawned and not yet run

\* ------------------------------------------------------------------ data
\* Option::None of the two session slots and of a file name.
None == "None"

\* A path whose last component is not valid UTF-8: file_name().to_str() is None.
BadPath == "\\xff"

\* The paths the file dialog can return.
Paths == {"a.txt", "b.txt", BadPath}

\* path.file_name().and_then(|n| n.to_str())
file_name(path) == IF path = BadPath THEN None ELSE path

\* The lengths tokio::fs::metadata reports for a picked file.
FileLens == {0, 1}

\* chrono::Local::now().format("%Y-%m-%d %H:%M:%S"): the readings of the clock.
Dates == {"2026-11-04 10:00:00"}

\* Option::None of the remote_client slot; a handle is the number of the
\* authenticate task that connected it.
NoClient == 0

\* format!("tg_file_{}", filename)
FileId(filename) == <<"tg_file_", filename>>

FileRecord(filename, file_id, upload_date, file_size) ==
    [filename |-> filename, file_id |-> file_id,
     upload_date |-> upload_date, file_size |-> file_size]

\* ---------------------------------------------------------- format_size
KB == 1024
MB == 1048576
GB == 1073741824

\* n / unit as "{:.2}" prints it, in hundredths: the quotient is exact in f64
\* for n < 2^53 (unit is a power of two), and the decimal expansion is rounded
\* to nearest, ties to even.  The remainder is scaled in two limbs so that no
\* intermediate value leaves the integer range.
Hundredths(n, unit) ==
    LET q    == n \div unit
        r    == n % unit
        lim  == unit \div 1024            \* unit = lim * 1024
        rh   == r \div 1024
        rl   == r % 1024
        \* r * 100 = (rh * 1024 + rl) * 100; divide by unit = lim * 1024
        hi   == rh * 100 + (rl * 100) \div 1024
        lo   == (rl * 100) % 1024
        d    == hi \div lim
        rem  == (hi % lim) * 1024 + lo    \* remainder over unit
        twice == IF rem >= unit - rem THEN IF rem = unit - rem THEN 0 ELSE 1 ELSE -1
        roundUp == twice = 1 \/ (twice = 0 /\ d % 2 = 1)
    IN  q * 100 + d + (IF roundUp THEN 1 ELSE 0)

\* A format_size whose thresholds are exclusive.
format_size_exclusive(size) ==
    IF size > GB THEN
        <<Hundredths(size, GB) \div 100, Hundredths(size, GB) % 100, "GB">>
    ELSE IF size > MB THEN
        <<Hundredths(size, MB) \div 100, Hundredths(size, MB) % 100, "MB">>
    ELSE IF size > KB THEN
        <<Hundredths(size, KB) \div 100, Hundredths(size, KB) % 100, "KB">>
    ELSE
        <<size, -1, "B">>

\* The printed text as <<integer part, two decimals (-1: none), unit>>.
format_size(size) ==
    IF size >= GB THEN
        <<Hundredths(size, GB) \div 100, Hundredths(size, GB) % 100, "GB">>
    ELSE IF size >= MB THEN
        <<Hundredths(size, MB) \div 100, Hundredths(size, MB) % 100, "MB">>
    ELSE IF size >= KB THEN
        <<Hundredths(size, KB) \div 100, Hundredths(size, KB) % 100, "KB">>
    ELSE
        <<size, -1, "B">>

\* ------------------------------------------------------- snapshot file
\* The text of the snapshot file is a sequence of tokens: the brackets of the
\* JSON array and one token per serialized record.  "\\xff" stands for bytes
\* that are not valid UTF-8 (a file damaged outside the program).
NoRec == FileRecord("", <<>>, "", 0)

Tok(kind) == [kind |-> kind, rec |-> NoRec]

RecTok(r) == [kind |-> "rec", rec |-> r]

\* A serializer that writes the records last to first.
to_string_pretty_reversed(recs) ==
    <<Tok("[")>> \o [i \in 1 .. Len(recs) |-> RecTok(recs[Len(recs) + 1 - i])]
                 \o <<Tok("]")>>

\* serde_json::to_string_pretty(&records)
to_string_pretty(recs) ==
    <<Tok("[")>> \o [i \in 1 .. Len(recs) |-> RecTok(recs[i])] \o <<Tok("]")>>

\* serde_json::from_str::<Vec<FileRecord>>(&content)
from_str(content) ==
    LET n == Len(content)
        wellFormed ==
            /\ n >= 2
            /\ content[1].kind = "["
            /\ content[n].kind = "]"
            /\ \A i \in 2 .. n - 1 : content[i].kind = "rec"
    IN  IF wellFormed
        THEN [ok |-> TRUE, value |-> [i \in 1 .. n - 2 |-> content[i + 1].rec]]
        ELSE [ok |-> FALSE, value |-> <<>>]

\* Result<Vec<_>, _>::unwrap_or_default()
unwrap_or_default(res) == IF res.ok THEN res.value ELSE <<>>

\* tokio::fs::read_to_string: fails on an I/O error (ioOk = FALSE) and on
\* content that is not valid UTF-8 (io::ErrorKind::InvalidData).
read_to_string(file, ioOk) ==
    IF ~ioOk
    THEN [ok |-> FALSE, value |-> <<>>, err |-> "io error"]
    ELSE IF \E i \in 1 .. Len(file.content) : file.content[i].kind = "\\xff"
    THEN [ok |-> FALSE, value |-> <<>>, err |-> "invalid data"]
    ELSE [ok |-> TRUE, value |-> file.content, err |-> ""]

NoFile == [exists |-> FALSE, content |-> <<>>]

FileOf(content) == [exists |-> TRUE, content |-> content]

\* Database::new: the records loaded, or Err (the `?` on read_to_string).
Database_new(file, ioOk) ==
    IF file.exists
    THEN LET content == read_to_string(file, ioOk)
         IN  IF content.ok
             THEN [ok |-> TRUE, value |-> unwrap_or_default(from_str(content.value)),
                   err |-> ""]
             ELSE [ok |-> FALSE, value |-> <<>>, err |-> content.err]
    ELSE [ok |-> TRUE, value |-> <<>>, err |-> ""]

\* tokio::fs::File::create on an existing or missing file: created or truncated.
File_create(file) == FileOf(<<>>)

\* write of `text` at offset 0 through a handle opened by File::create: it
\* overwrites what another handle has written since the truncation.
write_at_0(file, text) ==
    FileOf(text \o SubSeq(file.content, Len(text) + 1, Len(file.content)))

\* Vec::reverse
reverse(s) == [i \in 1 .. Len(s) |-> s[Len(s) + 1 - i]]

\* The SlintFileEntry built from a record, lines 82-87.
FileEntry(r) ==
    [filename    |-> r.filename,
     file_id     |-> r.file_id,
     upload_date |-> r.upload_date,
     size        |-> format_size(r.file_size)]

\* A get_all_files that does not reverse.
get_all_files_unreversed(recs) == [i \in 1 .. Len(recs) |-> FileEntry(recs[i])]

\* Database::get_all_files on the locked records.
get_all_files(recs) == reverse([i \in 1 .. Len(recs) |-> FileEntry(recs[i])])

\* An insert that takes its record back when save returned Err.
insert_file_err_rollback(recs) == SubSeq(recs, 1, Len(recs) - 1)

\* Database::insert_file when save returned Err, line 73: the `?` returns the
\* error, and the records keep what line 72 pushed.
insert_file_err(recs) == recs

\* --------------------------------------------------------------- window
\* A call on the window is a sequence of strings: "set" or "post" (a setter
\* called directly with ui.set_..., or inside a closure handed to
\* invoke_from_event_loop), the property, and the value.
Set(prop, value) == <<"set", prop>> \o value

Post(prop, value) == <<"post", prop>> \o value

\* f32 and bool values as the window receives them.
Float(tenths) ==
    CASE tenths = 0  -> <<"0.0">>
      [] tenths = 1  -> <<"0.1">>
      [] tenths = 8  -> <<"0.8">>
      [] tenths = 10 -> <<"1.0">>

Bool(b) == IF b THEN <<"true">> ELSE <<"false">>

CallsOn(calls, how, prop) ==
    SelectSeq(calls, LAMBDA c : c[1] = how /\ c[2] = prop)

ValueOf(call) == SubSeq(call, 3, Len(call))

\* The value of the last direct set of `prop` among `calls`; <<>> when none.
LastSet(calls, prop) ==
    LET sets == CallsOn(calls, "set", prop)
    IN  IF sets = <<>> THEN <<>> ELSE ValueOf(sets[Len(sets)])

\* The values of `prop` posted among `calls`, in the order they were posted.
Posted(calls, prop) ==
    LET posts == CallsOn(calls, "post", prop)
    IN  [i \in 1 .. Len(posts) |-> ValueOf(posts[i])]

\* ---------------------------------------------------------------- mutexes
\* The std::sync::Mutex of the client slot (line 268), of the selected_file
\* slot (line 269) and of Database.records (line 33).
Mutexes == {"client", "selected_file", "records"}

Free == "free"

\* m.lock().unwrap(): `who` holds the guard of m.
lock(ls, m, who) == [ls EXCEPT ![m] = who]

\* A guard that outlives its statement and is still held at the next .await.
drop_kept(ls, m) == ls

\* The guard of m is dropped: at the end of the statement that made it as a
\* temporary (lines 53, 72, 285, 319, 356), of the block it is bound in
\* (lines 372-375), or of the function (lines 79-92).
drop(ls, m) == [ls EXCEPT ![m] = Free]

\* ----------------------------------------------------------------- state
VARIABLES
    main,           \* main: "running" (in ui.run()), or "exit: " and the error
                    \* Database::new returned
    dbFile,         \* the file at DB_FILE: [exists, content]
    records,        \* Database.records, the Vec behind the mutex
    loaded,         \* what Database::new loaded when the process started
    client,         \* the remote_client slot: NoClient or a handle
    selected_file,  \* the selected_file slot: None or a path
    picked,         \* the calls the last on_select_file made on the window
    uploaded_files, \* the list the last refresh task handed to the window
    uploads,        \* the upload tasks, in the order they were spawned
    auths,          \* the authenticate tasks, in the order they were spawned
    refreshes,      \* refresh tasks spawned and not yet run
    locks           \* the three mutexes: who holds the guard of each

vars == <<main, dbFile, records, loaded, client, selected_file, picked,
          uploaded_files, uploads, auths, refreshes, locks>>

UploadIds == 1 .. MaxUploads
AuthIds   == 1 .. MaxAuths

\* The snapshot files the process can find when it starts: none, the
\* snapshot of an earlier run (empty, or with one record), a snapshot cut
\* short by a failed write, and a file that is not text.
OldRecord == FileRecord("old.txt", FileId("old.txt"), "2026-11-04 10:00:00", 1)

InitialFiles ==
    { NoFile,
      FileOf(to_string_pretty(<<>>)),
      FileOf(to_string_pretty(<<OldRecord>>)),
      FileOf(<<Tok("[")>>),
      FileOf(<<Tok("\\xff")>>) }

\* An upload task that was not spawned yet.
\*   file_size:    the length measured by the task, line 378 (0 on an error)
\*   metadata_len: the length measured by step 1 of the workflow, line 126
\*   client_at_trigger: what the client slot held when the callback spawned
\*                 the task (kept for the properties; the code does not read it)
\*   returned: the calls of the workflow that have returned Ok
\*   result:   "" while running, then "ok" | "failed" | "no_client"
\*   saved:    "" | "ok" | "err": how insert_file returned
\*   rec:      the record this task pushed (NoRec: none)
\*   window:   the calls this task made on the window
IdleUpload ==
    [pc |-> "idle", path |-> None, tg_client |-> NoClient, file_size |-> 0,
     metadata_len |-> 0, client_at_trigger |-> NoClient, json |-> <<>>, returned |-> {}, result |-> "", saved |-> "", rec |-> NoRec,
     window |-> <<>>]

\* An authenticate task that was not spawned yet.
\*   authorized: what is_authorized() reported: "?" (not asked) | "yes" | "no"
\*   calls:      the remote calls made so far
\*   reads:      lines read from stdin so far
\*   result:     "" while running, then "ok" | "auth_failed" | "conn_failed"
\*   window:     the calls this task made on the window
IdleAuth ==
    [pc |-> "idle", authorized |-> "?", calls |-> {}, reads |-> 0, result |-> "",
     window |-> <<>>]

\* main, lines 240-269, started on one of `files`: the store is opened, the
\* window built, the slots empty.
InitOn(files) ==
    /\ dbFile \in files
    /\ \E ioOk \in BOOLEAN :
          LET db == Database_new(dbFile, ioOk)
          IN  /\ main = IF db.ok THEN "running"
                        ELSE IF db.err = "io error" THEN "exit: io error"
                        ELSE "exit: invalid data"
              /\ records = db.value
              /\ loaded = db.value
    /\ client = NoClient
    /\ selected_file = None
    /\ picked = <<>>
    /\ uploaded_files = <<>>
    /\ uploads = [t \in UploadIds |-> IdleUpload]
    /\ auths = [t \in AuthIds |-> IdleAuth]
    /\ refreshes = 0
    /\ locks = [m \in Mutexes |-> Free]

Init == InitOn(InitialFiles)

\* A critical section of `who` on mutex m inside one segment: the segment
\* waits for the mutex, takes the guard, and drops it before its next .await.
critical(m, who) ==
    /\ locks[m] = Free
    /\ locks' = drop(lock(locks, m, who), m)

Spawned(tasks) == Cardinality({t \in DOMAIN tasks : tasks[t].pc # "idle"})

InFlight(tasks) == {t \in DOMAIN tasks : tasks[t].pc \notin {"idle", "done"}}

\* ------------------------------------------------------------ select file
\* on_select_file, lines 276-293; `file` is what the dialog returned.
on_select_file(file) ==
    /\ main = "running"
    /\ IF file # None
       THEN /\ critical("selected_file", "callback")
            /\ selected_file' = file
            /\ picked' =
                 << Set("selected_file",
                        <<IF file_name(file) = None THEN "Unknown" ELSE file_name(file)>>),
                    Set("status_text", <<"File selected. Ready to upload.">>) >>
       ELSE UNCHANGED <<selected_file, picked, locks>>
    /\ UNCHANGED <<main, dbFile, records, loaded, client, uploaded_files, uploads,
                   auths, refreshes>>

\* ----------------------------------------------------------- authenticate
\* The end of an authenticate task whose connect failed, lines 336-342.
ConnFailed(t, a) ==
    /\ auths' = [auths EXCEPT ![t] =
                    [a EXCEPT !.pc = "done", !.result = "conn_failed",
                              !.window = Append(@, Set("status_text",
                                                       <<"Connection failed: ", "error">>))]]
    /\ UNCHANGED <<client, locks>>

\* A failed attempt that empties the slot.
AuthFailed_clears(t, a) ==
    /\ auths' = [auths EXCEPT ![t] =
                    [a EXCEPT !.pc = "done", !.result = "auth_failed",
                              !.window = Append(@, Set("status_text",
                                                       <<"Auth failed: ", "error">>))]]
    /\ critical("client", "authenticate")
    /\ client' = NoClient

\* A failed attempt that leaves its handle in the slot.
AuthFailed_stores(t, a) ==
    /\ auths' = [auths EXCEPT ![t] =
                    [a EXCEPT !.pc = "done", !.result = "auth_failed",
                              !.window = Append(@, Set("status_text",
                                                       <<"Auth failed: ", "error">>))]]
    /\ critical("client", "authenticate")
    /\ client' = t

\* The end of a task whose authenticate_with_phone returned Err, lines 327-333.
AuthFailed(t, a) ==
    /\ auths' = [auths EXCEPT ![t] =
                    [a EXCEPT !.pc = "done", !.result = "auth_failed",
                              !.window = Append(@, Set("status_text",
                                                       <<"Auth failed: ", "error">>))]]
    /\ UNCHANGED <<client, locks>>

\* The end of a task whose authenticate_with_phone returned Ok, lines 318-326:
\* the handle is stored, then the window is told.
AuthSucceeded(t, a) ==
    /\ critical("client", "authenticate")
    /\ client' = t
    /\ auths' = [auths EXCEPT ![t] =
                    [a EXCEPT !.pc = "done", !.result = "ok",
                              !.window = @ \o
                                  << Set("is_authenticated", Bool(TRUE)),
                                     Set("status_text", <<"Successfully authenticated!">>) >>]]

AuthFrame == UNCHANGED <<main, dbFile, records, loaded, selected_file, picked,
                         uploaded_files, uploads, refreshes>>

\* on_authenticate, lines 301-309: the callback spawns a task.
on_authenticate ==
    /\ main = "running"
    /\ Spawned(auths) < MaxAuths
    /\ auths' = [auths EXCEPT ![Spawned(auths) + 1].pc = "spawned"]
    /\ UNCHANGED <<client, locks>>
    /\ AuthFrame

\* Lines 310-315 and 182-190: the status is set, the session file loaded
\* (sessionOk) and Client::connect started.
auth_begin(t) ==
    /\ auths[t].pc = "spawned"
    /\ LET a == [auths[t] EXCEPT !.window =
                    <<Set("status_text", <<"Connecting to Telegram...">>)>>]
       IN  \E sessionOk \in BOOLEAN :
              IF sessionOk
              THEN /\ auths' = [auths EXCEPT ![t] = [a EXCEPT !.pc = "connect"]]
                   /\ UNCHANGED <<client, locks>>
              ELSE ConnFailed(t, a)
    /\ AuthFrame

\* Client::connect returned, lines 185-193 and 315-317; is_authorized starts.
auth_connect(t) ==
    /\ auths[t].pc = "connect"
    /\ LET a == [auths[t] EXCEPT !.calls = @ \cup {"connect"}]
       IN  \E ok \in BOOLEAN :
              IF ok
              THEN /\ auths' = [auths EXCEPT ![t] = [a EXCEPT !.pc = "is_authorized"]]
                   /\ UNCHANGED <<client, locks>>
              ELSE ConnFailed(t, a)
    /\ AuthFrame

\* An authenticate that asks for a login code although the connection is
\* authorized.
auth_is_authorized_asks(t) ==
    /\ auths[t].pc = "is_authorized"
    /\ LET a == [auths[t] EXCEPT !.calls = @ \cup {"is_authorized"}]
       IN  \E r \in {"err", "yes", "no"} :
              IF r = "err"
              THEN AuthFailed(t, a)
              ELSE /\ auths' = [auths EXCEPT ![t] =
                                   [a EXCEPT !.authorized = r,
                                             !.pc = "request_login_code"]]
                   /\ UNCHANGED <<client, locks>>
    /\ AuthFrame

\* is_authorized returned, lines 204-208 and 232-236.
auth_is_authorized(t) ==
    /\ auths[t].pc = "is_authorized"
    /\ LET a == [auths[t] EXCEPT !.calls = @ \cup {"is_authorized"}]
       IN  \E r \in {"err", "yes", "no"} :
              CASE r = "err" -> AuthFailed(t, a)
                [] r = "yes" -> AuthSucceeded(t, [a EXCEPT !.authorized = "yes"])
                [] r = "no"  ->
                     /\ auths' = [auths EXCEPT ![t] =
                                     [a EXCEPT !.authorized = "no",
                                               !.pc = "request_login_code"]]
                     /\ UNCHANGED <<client, locks>>
    /\ AuthFrame

\* request_login_code returned, lines 208-217; the code is read from stdin
\* (readOk) and sign_in starts.
auth_request_login_code(t) ==
    /\ auths[t].pc = "request_login_code"
    /\ LET a == [auths[t] EXCEPT !.calls = @ \cup {"request_login_code"}]
       IN  \E ok \in BOOLEAN, readOk \in BOOLEAN :
              IF ~ok THEN AuthFailed(t, a)
              ELSE IF ~readOk THEN AuthFailed(t, [a EXCEPT !.reads = @ + 1])
              ELSE /\ auths' = [auths EXCEPT ![t] =
                                   [a EXCEPT !.reads = @ + 1, !.pc = "sign_in"]]
                   /\ UNCHANGED <<client, locks>>
    /\ AuthFrame

\* sign_in returned, lines 217-231; on PasswordRequired the password is read
\* from stdin (readOk) and check_password starts.
auth_sign_in(t) ==
    /\ auths[t].pc = "sign_in"
    /\ LET a == [auths[t] EXCEPT !.calls = @ \cup {"sign_in"}]
       IN  \E r \in {"ok", "password_required", "err"}, readOk \in BOOLEAN :
              CASE r = "ok"  -> AuthSucceeded(t, a)
                [] r = "err" -> AuthFailed(t, a)
                [] r = "password_required" ->
                     IF ~readOk THEN AuthFailed(t, [a EXCEPT !.reads = @ + 1])
                     ELSE /\ auths' = [auths EXCEPT ![t] =
                                          [a EXCEPT !.reads = @ + 1,
                                                    !.pc = "check_password"]]
                          /\ UNCHANGED <<client, locks>>
    /\ AuthFrame

\* check_password returned, lines 227-229.
auth_check_password(t) ==
    /\ auths[t].pc = "check_password"
    /\ LET a == [auths[t] EXCEPT !.calls = @ \cup {"check_password"}]
       IN  \E ok \in BOOLEAN :
              IF ok THEN AuthSucceeded(t, a) ELSE AuthFailed(t, a)
    /\ AuthFrame

\* ----------------------------------------------------------------- upload
UploadFrame == UNCHANGED <<main, loaded, client, selected_file, picked,
                           uploaded_files, auths, refreshes>>

\* Lines 408-412: the task's last statement.
UiReset == << Set("is_uploading", Bool(FALSE)), Set("upload_progress", Float(0)) >>

\* A failed upload that still records the file.
UploadFailed_inserts(t, u, e) ==
    LET record == FileRecord(u.path, FileId(u.path), "2026-11-04 10:00:00", u.file_size)
    IN  /\ uploads' = [uploads EXCEPT ![t] =
                          [IdleUpload EXCEPT
                              !.pc = "done", !.result = "failed",
                              !.returned = u.returned, !.saved = u.saved, !.rec = record,
                              !.window = u.window
                                         \o <<Set("status_text", <<"Upload failed: ", e>>)>>
                                         \o UiReset]]
        /\ records' = Append(records, record)
        /\ UNCHANGED dbFile

\* The end of a task whose upload_file_to_telegram returned Err(e), lines
\* 398-412: no insert, the failure is shown and the flags are reset.
UploadFailed(t, u, e) ==
    /\ uploads' = [uploads EXCEPT ![t] =
                      [IdleUpload EXCEPT
                          !.pc = "done", !.result = "failed",
                          !.returned = u.returned, !.saved = u.saved, !.rec = u.rec,
                          !.window = u.window
                                     \o <<Set("status_text", <<"Upload failed: ", e>>)>>
                                     \o UiReset]]
    /\ UNCHANGED <<dbFile, records>>

\* The end of a task whose insert_file returned (Ok or Err), lines 388-412:
\* an Err is only logged.
UploadFinished(t, u, saved) ==
    uploads' = [uploads EXCEPT ![t] =
                   [IdleUpload EXCEPT
                       !.pc = "done", !.result = "ok", !.saved = saved, !.rec = u.rec,
                       !.returned = u.returned,
                       !.window = u.window
                                  \o << Set("status_text", <<"Upload successful!">>),
                                        Set("selected_file", <<"No file selected">>) >>
                                  \o UiReset]]

\* on_upload_file, lines 355-363: the slot's value is read and, when there is
\* one, moved into a new task.
on_upload_file ==
    /\ main = "running"
    /\ Spawned(uploads) < MaxUploads
    /\ IF selected_file # None
       THEN uploads' = [uploads EXCEPT ![Spawned(uploads) + 1] =
                           [IdleUpload EXCEPT !.pc = "spawned", !.path = selected_file,
                                              !.client_at_trigger = client]]
       ELSE UNCHANGED uploads
    /\ UNCHANGED <<dbFile, records>>
    /\ critical("selected_file", "callback")
    /\ UploadFrame

\* A task that returns early without a client, before the flags are reset.
upload_begin_no_reset(t) ==
    /\ uploads[t].pc = "spawned"
    /\ LET started == << Set("is_uploading", Bool(TRUE)),
                         Set("upload_progress", Float(0)),
                         Set("status_text", <<"Starting upload...">>) >>
       IN  IF client # NoClient
           THEN uploads' = [uploads EXCEPT ![t].pc = "measure",
                                           ![t].tg_client = client,
                                           ![t].window = started]
           ELSE uploads' = [uploads EXCEPT ![t] =
                               [IdleUpload EXCEPT !.pc = "done",
                                                  !.result = "no_client",
                                                  !.window = started]]
    /\ UNCHANGED <<dbFile, records>>
    /\ critical("client", "upload")
    /\ UploadFrame

\* Lines 364-378 (and 408-412 without a client): the flags are set, the handle
\* is cloned out of the slot, and the measurement of the file starts.
upload_begin(t) ==
    /\ uploads[t].pc = "spawned"
    /\ LET started == << Set("is_uploading", Bool(TRUE)),
                         Set("upload_progress", Float(0)),
                         Set("status_text", <<"Starting upload...">>) >>
       IN  IF client # NoClient
           THEN uploads' = [uploads EXCEPT ![t].pc = "measure",
                                           ![t].tg_client = client,
                                           ![t].window = started]
           ELSE uploads' = [uploads EXCEPT ![t] =
                               [IdleUpload EXCEPT !.pc = "done",
                                                  !.result = "no_client",
                                                  !.window = started \o UiReset]]
    /\ UNCHANGED <<dbFile, records>>
    /\ critical("client", "upload")
    /\ UploadFrame

\* tokio::fs::metadata returned, lines 378-380: its length, or 0 on an error
\* (len = -1).  upload_file_to_telegram starts, lines 118-125.
upload_measure(t) ==
    /\ uploads[t].pc = "measure"
    /\ \E len \in FileLens \cup {-1} :
          LET u == [uploads[t] EXCEPT !.file_size = IF len = -1 THEN 0 ELSE len]
          IN  IF file_name(u.path) = None
              THEN UploadFailed(t, u, "Invalid filename")
              ELSE /\ uploads' = [uploads EXCEPT ![t] = [u EXCEPT !.pc = "metadata"]]
                   /\ UNCHANGED <<dbFile, records>>
    /\ UNCHANGED locks
    /\ UploadFrame

\* Step 1 returned, lines 125-141: tokio::fs::metadata gave the length of the
\* file as it is now (len), or an error (len = -1); on success 0.1 is posted
\* and the transfer starts.
upload_metadata(t) ==
    /\ uploads[t].pc = "metadata"
    /\ \E len \in FileLens \cup {-1} :
          IF len # -1
          THEN /\ uploads' = [uploads EXCEPT
                    ![t].pc = "upload_file",
                    ![t].metadata_len = len,
                    ![t].returned = @ \cup {"metadata"},
                    ![t].window = @ \o
                        << Post("status_text",
                                <<"Uploading ", file_name(uploads[t].path), "...">>),
                           Post("upload_progress", Float(1)) >>]
               /\ UNCHANGED <<dbFile, records>>
          ELSE UploadFailed(t, uploads[t], "error")
    /\ UNCHANGED locks
    /\ UploadFrame

\* A transfer step that does not report 0.8.
upload_upload_file_silent(t) ==
    /\ uploads[t].pc = "upload_file"
    /\ \E ok \in BOOLEAN :
          IF ok
          THEN /\ uploads' = [uploads EXCEPT
                    ![t].pc = "get_me",
                    ![t].returned = @ \cup {"upload_file"}]
               /\ UNCHANGED <<dbFile, records>>
          ELSE UploadFailed(t, uploads[t], "error")
    /\ UNCHANGED locks
    /\ UploadFrame

\* client.upload_file returned, lines 141-153: on success 0.8 is posted and
\* get_me starts.
upload_upload_file(t) ==
    /\ uploads[t].pc = "upload_file"
    /\ \E ok \in BOOLEAN :
          IF ok
          THEN /\ uploads' = [uploads EXCEPT
                    ![t].pc = "get_me",
                    ![t].returned = @ \cup {"upload_file"},
                    ![t].window = Append(@, Post("upload_progress", Float(8)))]
               /\ UNCHANGED <<dbFile, records>>
          ELSE UploadFailed(t, uploads[t], "error")
    /\ UNCHANGED locks
    /\ UploadFrame

\* client.get_me returned, lines 153-154.
upload_get_me(t) ==
    /\ uploads[t].pc = "get_me"
    /\ \E ok \in BOOLEAN :
          IF ok
          THEN /\ uploads' = [uploads EXCEPT ![t].pc = "resolve_username",
                                             ![t].returned = @ \cup {"get_me"}]
               /\ UNCHANGED <<dbFile, records>>
          ELSE UploadFailed(t, uploads[t], "error")
    /\ UNCHANGED locks
    /\ UploadFrame

\* A workflow that goes on to the delivery when no destination was resolved.
upload_resolve_username_goes_on(t) ==
    /\ uploads[t].pc = "resolve_username"
    /\ \E r \in {"err", "none", "some"} :
          CASE r = "err"  -> UploadFailed(t, uploads[t], "error")
            [] r = "none" ->
                 /\ uploads' = [uploads EXCEPT ![t].pc = "send_message"]
                 /\ UNCHANGED <<dbFile, records>>
            [] r = "some" ->
                 /\ uploads' = [uploads EXCEPT
                      ![t].pc = "send_message",
                      ![t].returned = @ \cup {"resolve_username"}]
                 /\ UNCHANGED <<dbFile, records>>
    /\ UNCHANGED locks
    /\ UploadFrame

\* client.resolve_username("me") returned, lines 154-159.
upload_resolve_username(t) ==
    /\ uploads[t].pc = "resolve_username"
    /\ \E r \in {"err", "none", "some"} :
          CASE r = "err"  -> UploadFailed(t, uploads[t], "error")
            [] r = "none" -> UploadFailed(t, uploads[t], "Failed to resolve self")
            [] r = "some" ->
                 /\ uploads' = [uploads EXCEPT
                      ![t].pc = "send_message",
                      ![t].returned = @ \cup {"resolve_username"}]
                 /\ UNCHANGED <<dbFile, records>>
    /\ UNCHANGED locks
    /\ UploadFrame

\* A record named after the file that is in the slot when the upload ends.
NewRecord_of_slot(u, upload_date) ==
    FileRecord(IF file_name(selected_file) = None THEN "Unknown"
                                                   ELSE file_name(selected_file),
               FileId(file_name(selected_file)), upload_date, u.file_size)

\* The record insert_file builds for the task's file, lines 384-386 and 63-70.
NewRecord(u, upload_date) ==
    FileRecord(IF file_name(u.path) = None THEN "Unknown" ELSE file_name(u.path),
               FileId(file_name(u.path)), upload_date, u.file_size)

\* A push that puts the record first.
insert_file_push_front(recs, record) == <<record>> \o recs

\* A push that appends the record twice.
insert_file_push_twice(recs, record) == Append(Append(recs, record), record)

\* Database::insert_file's push under the lock, line 72.
insert_file_push(recs, record) == Append(recs, record)

\* client.send_message returned, lines 159-170: on success 1.0 is posted, the
\* identifier returned, and insert_file pushes the record (lines 383-388, 62-72).
upload_send_message(t) ==
    /\ uploads[t].pc = "send_message"
    /\ \E ok \in BOOLEAN, upload_date \in Dates :
          IF ok
          THEN LET record == NewRecord(uploads[t], upload_date)
               IN  /\ records' = insert_file_push(records, record)
                   /\ uploads' = [uploads EXCEPT
                        ![t].pc = "save",
                        ![t].returned = @ \cup {"send_message"},
                        ![t].rec = record,
                        ![t].window = Append(@, Post("upload_progress", Float(10)))]
                   /\ UNCHANGED dbFile
          ELSE UploadFailed(t, uploads[t], "error")
    /\ IF uploads'[t].rec # NoRec THEN critical("records", "upload")
                                  ELSE UNCHANGED locks
    /\ UploadFrame

\* Database::save, lines 53-56: the records are cloned under the lock and
\* serialized; File::create starts.
save_clone(t) ==
    /\ uploads[t].pc = "save"
    /\ uploads' = [uploads EXCEPT ![t].pc = "create",
                                  ![t].json = to_string_pretty(records)]
    /\ UNCHANGED <<dbFile, records>>
    /\ critical("records", "upload")
    /\ UploadFrame

\* File::create returned, line 56: the file is truncated, or save fails.
save_create(t) ==
    /\ uploads[t].pc = "create"
    /\ \E ok \in BOOLEAN :
          IF ok
          THEN /\ dbFile' = File_create(dbFile)
               /\ uploads' = [uploads EXCEPT ![t].pc = "write"]
               /\ UNCHANGED records
          ELSE /\ UploadFinished(t, uploads[t], "err")
               /\ records' = insert_file_err(records)
               /\ UNCHANGED dbFile
    /\ UNCHANGED locks
    /\ UploadFrame

\* write_all returned, lines 57-59: all of the text is written, or a part of
\* it (the first n tokens) and save fails.
save_write(t) ==
    /\ uploads[t].pc = "write"
    /\ \E n \in 0 .. Len(uploads[t].json) :
          /\ dbFile' = write_at_0(dbFile, SubSeq(uploads[t].json, 1, n))
          /\ UploadFinished(t, uploads[t],
                            IF n = Len(uploads[t].json) THEN "ok" ELSE "err")
          /\ records' = IF n = Len(uploads[t].json)
                        THEN records ELSE insert_file_err(records)
    /\ UNCHANGED locks
    /\ UploadFrame

\* ---------------------------------------------------------------- refresh
\* on_refresh_files, lines 423-427: the callback spawns a task.
on_refresh_files ==
    /\ main = "running"
    /\ refreshes < MaxRefresh
    /\ refreshes' = refreshes + 1
    /\ UNCHANGED <<main, dbFile, records, loaded, client, selected_file, picked,
                   uploaded_files, uploads, auths, locks>>

\* The refresh task, lines 428-434: get_all_files under the lock, then the
\* model of the list is replaced.
refresh_task ==
    /\ refreshes > 0
    /\ refreshes' = refreshes - 1
    /\ critical("records", "refresh")
    /\ uploaded_files' = get_all_files(records)
    /\ UNCHANGED <<main, dbFile, records, loaded, client, selected_file, picked,
                   uploads, auths>>

\* ------------------------------------------------------- specifications
AuthStep(t) ==
    \/ auth_begin(t)
    \/ auth_connect(t)
    \/ auth_is_authorized(t)
    \/ auth_request_login_code(t)
    \/ auth_sign_in(t)
    \/ auth_check_password(t)

UploadStep(t) ==
    \/ upload_begin(t)
    \/ upload_measure(t)
    \/ upload_metadata(t)
    \/ upload_upload_file(t)
    \/ upload_get_me(t)
    \/ upload_resolve_username(t)
    \/ upload_send_message(t)
    \/ save_clone(t)
    \/ save_create(t)
    \/ save_write(t)

\* The whole program: every callback, every task.
Next ==
    \/ \E file \in Paths \cup {None} : on_select_file(file)
    \/ on_authenticate
    \/ \E t \in AuthIds : AuthStep(t)
    \/ on_upload_file
    \/ \E t \in UploadIds : UploadStep(t)
    \/ on_refresh_files
    \/ refresh_task

Spec == Init /\ [][Next]_vars

\* The session alone: the user only presses "authenticate".
NextSession ==
    \/ on_authenticate
    \/ \E t \in AuthIds : AuthStep(t)

SpecSession == Init /\ [][NextSession]_vars

\* The session of the upload specifications: the user authenticates once,
\* with a saved session that the platform reports as authorized (no login
\* dialogue).
SessionOnce ==
    \/ (Spawned(auths) = 0 /\ on_authenticate)
    \/ \E t \in AuthIds :
          \/ auth_begin(t)
          \/ auth_connect(t)
          \/ (auth_is_authorized(t) /\ auths'[t].authorized # "no")

\* Concurrent uploads: the user picks a.txt or a path without a file name and
\* starts uploads at will, also while uploads are in flight; a.txt is one byte
\* long whenever its length can be read; the list is not refreshed.
NextUpload ==
    \/ \E file \in {"a.txt", BadPath} : on_select_file(file)
    \/ SessionOnce
    \/ on_upload_file
    \/ \E t \in UploadIds :
          \/ upload_begin(t)
          \/ (upload_measure(t)
                /\ (uploads'[t].pc = "metadata" => uploads'[t].file_size = 1))
          \/ (upload_metadata(t)
                /\ (uploads'[t].pc = "upload_file" => uploads'[t].metadata_len = 1))
          \/ upload_upload_file(t)
          \/ upload_get_me(t)
          \/ upload_resolve_username(t)
          \/ upload_send_message(t)
          \/ save_clone(t)
          \/ save_create(t)
          \/ save_write(t)

SpecUpload == Init /\ [][NextUpload]_vars

\* One upload at a time: the user picks any file, or cancels the dialog, and
\* starts an upload only when none is in flight.
NextSingle ==
    \/ \E file \in Paths \cup {None} : on_select_file(file)
    \/ SessionOnce
    \/ (InFlight(uploads) = {} /\ on_upload_file)
    \/ \E t \in UploadIds : UploadStep(t)

SpecSingle == Init /\ [][NextSingle]_vars

\* Uploads and the history list: the user picks a.txt, starts uploads and
\* refreshes the list at will, also while uploads are in flight; a.txt is one
\* byte long whenever its length can be read.
NextRefresh ==
    \/ on_select_file("a.txt")
    \/ SessionOnce
    \/ on_upload_file
    \/ \E t \in UploadIds :
          \/ upload_begin(t)
          \/ (upload_measure(t)
                /\ (uploads'[t].pc = "metadata" => uploads'[t].file_size = 1))
          \/ (upload_metadata(t)
                /\ (uploads'[t].pc = "upload_file" => uploads'[t].metadata_len = 1))
          \/ upload_upload_file(t)
          \/ upload_get_me(t)
          \/ upload_resolve_username(t)
          \/ upload_send_message(t)
          \/ save_clone(t)
          \/ save_create(t)
          \/ save_write(t)
    \/ on_refresh_files
    \/ refresh_task

SpecRefresh == Init /\ [][NextRefresh]_vars

\* The history list alone: the process starts on the snapshot of an earlier
\* run that holds one record, of a file of any of these sizes, and the user
\* only refreshes the list.
FormatSizes ==
    {0, 1, 500, 2048, 1572864, 1610612736, 2147483647}
       \cup (KB - 6 .. KB + 6) \cup (MB - 6 .. MB + 2) \cup (GB - 2 .. GB + 2)

FormatFiles ==
    { FileOf(to_string_pretty(
          <<FileRecord("old.txt", FileId("old.txt"), "2026-11-04 10:00:00", size)>>)) :
         size \in FormatSizes }

NextFormat ==
    \/ on_refresh_files
    \/ refresh_task

SpecFormat == InitOn(FormatFiles) /\ [][NextFormat]_vars

\* ----------------------------------------------------------- properties
\* The upload tasks that pushed a record.
Pushed == {t \in UploadIds : uploads[t].rec # NoRec}

\* The values of upload_progress a task posted, in order.
ProgressOf(u) == Posted(u.window, "upload_progress")

FullProgress == <<Float(1), Float(8), Float(10)>>

IsPrefix(p, s) == Len(p) <= Len(s) /\ p = SubSeq(s, 1, Len(p))

\* The store a new process would open from the file as it is now.
Reopened == Database_new(dbFile, TRUE)

\* C1: an upload task whose workflow failed never inserts: it ends with no
\* record pushed and no save made, and no step of a task that has pushed no
\* record changes the in-memory records or the snapshot file.
C1_FailedUploadNeverInserts ==
    [][\A t \in UploadIds :
          /\ uploads'[t].result = "failed"
                => uploads'[t].rec = NoRec /\ uploads'[t].saved = ""
          /\ (uploads'[t] # uploads[t] /\ uploads'[t].rec = NoRec)
                => (records' = records /\ dbFile' = dbFile)]_vars

\* C1: a task has ended on a failed transfer, after 0.1 was posted, and the
\* records are those loaded at start.
C1_TransferFailed ==
    \E t \in UploadIds :
        /\ uploads[t].result = "failed"
        /\ uploads[t].returned = {"metadata"}
        /\ ProgressOf(uploads[t]) = <<Float(1)>>
        /\ records = loaded

\* C2: the records are those loaded at start followed by exactly one record
\* for each task that pushed; a task whose workflow succeeded has pushed, and
\* a task has pushed only after its transfer and its delivery returned Ok.
C2_OneRecordPerSuccessfulUpload ==
    /\ Len(records) = Len(loaded) + Cardinality(Pushed)
    /\ SubSeq(records, 1, Len(loaded)) = loaded
    /\ \A t \in Pushed :
          Cardinality({i \in Len(loaded) + 1 .. Len(records) :
                          records[i] = uploads[t].rec})
             = Cardinality({t2 \in Pushed : uploads[t2].rec = uploads[t].rec})
    /\ \A t \in UploadIds :
          /\ uploads[t].result = "ok" => t \in Pushed
          /\ t \in Pushed =>
                /\ {"upload_file", "send_message"} \subseteq uploads[t].returned
                /\ uploads[t].result \in {"", "ok"}
          /\ "send_message" \in uploads[t].returned => t \in Pushed

\* C2: two uploads succeeded and two records were added.
C2_TwoUploadsTwoRecords ==
    /\ \A t \in {1, 2} : uploads[t].result = "ok"
    /\ Len(records) = Len(loaded) + 2

\* C3: whenever every insert that has started has completed its save with
\* Ok, the snapshot file parses to exactly the in-memory records.
C3_SnapshotIsMemoryAfterSaves ==
    (Pushed # {} /\ \A t \in Pushed : uploads[t].saved = "ok")
       => /\ dbFile.exists
          /\ from_str(dbFile.content).ok
          /\ from_str(dbFile.content).value = records

\* C4: at most one upload task is between its start and its end.
C4_SingleFlight == Cardinality(InFlight(uploads)) <= 1

\* C5: what a task has posted to upload_progress is a prefix of 0.1, 0.8, 1.0:
\* nothing before the file length is resolved, 0.1 before the transfer starts
\* (it is there while the transfer runs), 0.8 only when the transfer returned
\* Ok, 1.0 only when the delivery returned Ok; a failed task posted a strict
\* prefix.
C5_ProgressOrder ==
    \A t \in UploadIds :
        LET u == uploads[t]
            p == ProgressOf(u)
        IN  /\ IsPrefix(p, FullProgress)
            /\ u.pc \in {"idle", "spawned", "measure", "metadata"} => p = <<>>
            /\ u.pc = "upload_file" => p = <<Float(1)>>
            /\ Len(p) >= 2 => "upload_file" \in u.returned
            /\ Len(p) = 3 => "send_message" \in u.returned
            /\ u.result = "failed" => Len(p) < 3

\* C5: one task posted all three values and succeeded, another failed after
\* posting 0.1 and 0.8.
C5_FullAndPrefix ==
    \E t1, t2 \in UploadIds :
        /\ uploads[t1].result = "ok"
        /\ ProgressOf(uploads[t1]) = FullProgress
        /\ uploads[t2].result = "failed"
        /\ ProgressOf(uploads[t2]) = <<Float(1), Float(8)>>

\* C6: when every insert made so far returned Ok, a store opened from the
\* snapshot file holds the in-memory records in insertion order, and its
\* get_all_files returns their entries last to first.
C6_RoundTrip ==
    (main = "running" /\ \A t \in Pushed : uploads[t].saved = "ok")
       => /\ Reopened.ok
          /\ Reopened.value = records
          /\ get_all_files(Reopened.value) =
                [i \in 1 .. Len(records) |-> FileEntry(records[Len(records) + 1 - i])]

\* C6: two inserts returned Ok on a store that was opened with one record.
C6_TwoInsertsReopened ==
    /\ \A t \in {1, 2} : uploads[t].saved = "ok"
    /\ Len(loaded) = 1
    /\ Len(Reopened.value) = 3

\* C7: after an insert whose save failed, and until the next insert, the
\* record it pushed is the last of the in-memory records and the first that
\* get_all_files returns.
C7_FailedSaveKeepsRecord ==
    \A t \in UploadIds :
        (uploads[t].saved = "err" /\ \A t2 \in UploadIds : t2 > t => t2 \notin Pushed)
           => /\ t \in Pushed
              /\ Len(records) > 0
              /\ records[Len(records)] = uploads[t].rec
              /\ get_all_files(records)[1] = FileEntry(uploads[t].rec)

\* C7: an insert returned Err after a short write, its record is the last in
\* memory, and a store opened from the snapshot file does not hold it.
C7_RecordedNotDurable ==
    \E t \in UploadIds :
        /\ uploads[t].saved = "err"
        /\ dbFile.exists
        /\ records[Len(records)] = uploads[t].rec
        /\ \A i \in 1 .. Len(Reopened.value) : Reopened.value[i] # uploads[t].rec

\* C8: when the history file is missing or does not parse to a record
\* sequence, Database::new returns an empty store and no error (an I/O error
\* of the read apart).
C8_OpenNeverFailsOnFileState ==
    (Spawned(uploads) = 0 /\ (~dbFile.exists \/ ~from_str(dbFile.content).ok))
       => /\ main # "exit: invalid data"
          /\ main = "running" => records = <<>>

\* C9: the client slot is written only by the attempt that succeeds in that
\* step, with its own handle; a step in which an attempt fails leaves the
\* slot as it was.
C9_FailedAuthKeepsSlot ==
    [][/\ client' # client
          => \E t \in AuthIds : /\ auths[t].result = ""
                                /\ auths'[t].result = "ok"
                                /\ client' = t
       /\ \A t \in AuthIds :
             (auths[t].result = "" /\ auths'[t].result \in {"auth_failed", "conn_failed"})
                => client' = client /\ client' # t]_vars

\* C9: two attempts failed, one at connect and one at the two-factor check,
\* and the slot is still empty.
C9_TwoFailedAttempts ==
    /\ auths[1].result = "conn_failed"
    /\ auths[2].result = "auth_failed"
    /\ "check_password" \in auths[2].calls
    /\ client = NoClient

\* C10: an attempt whose connection reported it is authorized has made no
\* remote call after connect but is_authorized, has read no input, and has
\* ended with success.
C10_AuthorizedShortCircuit ==
    \A t \in AuthIds :
        auths[t].authorized = "yes"
           => /\ auths[t].calls = {"connect", "is_authorized"}
              /\ auths[t].reads = 0
              /\ auths[t].pc = "done"
              /\ auths[t].result = "ok"

\* C10: an attempt on an authorized connection has ended and its handle is in
\* the slot.
C10_AlreadyAuthorized ==
    \E t \in AuthIds :
        /\ auths[t].authorized = "yes"
        /\ auths[t].result = "ok"
        /\ client = t

\* C11: in every state, where each running task is at one of its .await
\* points and the callbacks have returned, no mutex of the client slot, the
\* selected_file slot or the records is held; so a segment that waits for one
\* of them is never kept waiting by a suspended task.
C11_NoLockAcrossAwait == \A m \in Mutexes : locks[m] = Free

\* C11: a task is suspended inside save, on File::create, after it cloned the
\* records under the mutex, and another task has since pushed under the same
\* mutex.
C11_SuspendedInSaveOtherPushed ==
    \E t1, t2 \in UploadIds :
        /\ t1 # t2
        /\ uploads[t1].pc = "create"
        /\ t2 \in Pushed
        /\ Len(uploads[t1].json) < Len(records) + 2

\* The status text a task set last, directly, on the window.
StatusOf(task) == LastSet(task.window, "status_text")

\* C12: a task that hit a failure (connect, authentication, a step of the
\* upload, or the insert after a successful upload) has ended with a failure
\* text as its last status, never with a success message.
C12_FailureEndsInFailureStatus ==
    /\ \A t \in AuthIds :
          auths[t].result \in {"conn_failed", "auth_failed"}
             => /\ StatusOf(auths[t]) # <<>>
                /\ StatusOf(auths[t])[1] \in {"Connection failed: ", "Auth failed: "}
    /\ \A t \in UploadIds :
          (uploads[t].result = "failed" \/ uploads[t].saved = "err")
             => /\ StatusOf(uploads[t]) # <<>>
                /\ StatusOf(uploads[t])[1] = "Upload failed: "

\* The byte count of the record behind the i-th entry of the list shown.
ShownBytes(i) == records[Len(records) + 1 - i].file_size

\* The largest unit in which b, rounded to two decimals, shows as at least 1.
LargestUnitShownAtLeast1(b) ==
    IF Hundredths(b, GB) >= 100 THEN "GB"
    ELSE IF Hundredths(b, MB) >= 100 THEN "MB"
    ELSE IF Hundredths(b, KB) >= 100 THEN "KB"
    ELSE "B"

\* The largest unit that b reaches.
LargestUnitReached(b) ==
    IF b >= GB THEN "GB" ELSE IF b >= MB THEN "MB" ELSE IF b >= KB THEN "KB" ELSE "B"

UnitBytes(unit) ==
    CASE unit = "B" -> 1 [] unit = "KB" -> KB [] unit = "MB" -> MB [] unit = "GB" -> GB

\* The digits of a shown size: an integer for B, two decimals otherwise.
DigitsAsClaimed(b, text) ==
    IF text[3] = "B"
    THEN text[1] = b /\ text[2] = -1
    ELSE /\ text[2] \in 0 .. 99
         /\ text[1] \in {b \div UnitBytes(text[3]), b \div UnitBytes(text[3]) + 1}
         /\ text[1] >= 1

ExamplesAsClaimed(b, text) ==
    /\ b = 500 => text = <<500, -1, "B">>
    /\ b = 2048 => text = <<2, 0, "KB">>
    /\ b = 1572864 => text = <<1, 50, "MB">>
    /\ b = 1610612736 => text = <<1, 50, "GB">>

\* C13 as stated: every size shown uses the largest unit in which the
\* magnitude, rounded to two decimals, is at least 1, with an integer for B
\* and two decimals for KB, MB and GB.
C13_LargestUnitOfRoundedMagnitude ==
    \A i \in 1 .. Len(uploaded_files) :
        LET b == ShownBytes(i)
            text == uploaded_files[i].size
        IN  /\ text[3] = LargestUnitShownAtLeast1(b)
            /\ DigitsAsClaimed(b, text)
            /\ ExamplesAsClaimed(b, text)

\* C13 amended: every size shown uses the largest unit that the byte count
\* itself reaches (1024, 1024^2, 1024^3), with an integer for B and two
\* decimals for KB, MB and GB; the magnitude shown is at least 1.00 and can
\* round up to 1024.00.
C13_LargestUnitReached ==
    \A i \in 1 .. Len(uploaded_files) :
        LET b == ShownBytes(i)
            text == uploaded_files[i].size
        IN  /\ text[3] = LargestUnitReached(b)
            /\ DigitsAsClaimed(b, text)
            /\ text[3] # "B" => text[1] * 100 + text[2] <= 102400
            /\ ExamplesAsClaimed(b, text)

\* C13: the list shows a file of 1048575 bytes as 1024.00 KB.
C13_Shows1024KB ==
    /\ Len(uploaded_files) = 1
    /\ ShownBytes(1) = MB - 1
    /\ uploaded_files[1].size = <<1024, 0, "KB">>

\* C14: the record a task has pushed carries the length that step 1 of its
\* workflow resolved (checked while the task is inside insert_file).
C14_RecordSizeIsStep1Length ==
    \A t \in UploadIds :
        (t \in Pushed /\ uploads[t].pc # "done")
           => uploads[t].rec.file_size = uploads[t].metadata_len

\* C15: the step in which a refresh task runs get_all_files hands over the
\* entries of the records as they are, last inserted first, one entry per
\* record, and leaves the records and the snapshot file as they were.
C15_ReadAllIsPureAndReversed ==
    [][refreshes' < refreshes
          => /\ uploaded_files' =
                   [i \in 1 .. Len(records) |-> FileEntry(records[Len(records) + 1 - i])]
             /\ records' = records
             /\ dbFile' = dbFile]_vars

\* C15: the list was read while an insert was inside save: it holds the record
\* that task pushed first and the record loaded at start last.
C15_ReadDuringInsert ==
    \E t \in UploadIds :
        /\ uploads[t].pc \in {"create", "write"}
        /\ Len(uploaded_files) = 2
        /\ uploaded_files[1] = FileEntry(uploads[t].rec)
        /\ uploaded_files[2] = FileEntry(OldRecord)

\* C16: the remote steps of a workflow run in the order transfer, resolution,
\* delivery, each only after the one before it returned Ok: a step of a task
\* either ends the task or starts the next call of the list, the transfer is
\* running only after step 1 resolved the length, the delivery only after the
\* transfer and the resolution returned Ok, an identifier is returned (and
\* the insert made) only after the delivery returned Ok, and a task whose
\* workflow failed is at its end.
C16_StepsInOrderAndAbort ==
    [][\A t \in UploadIds :
          LET u == uploads[t]
              v == uploads'[t]
              order == <<"measure", "metadata", "upload_file", "get_me",
                         "resolve_username", "send_message", "save">>
          IN  /\ \A i \in 1 .. 6 :
                    (u.pc = order[i] /\ v # u) => v.pc \in {order[i + 1], "done"}
              /\ \A i \in 2 .. 7 :
                    (v.pc = order[i] /\ v # u) => u.pc = order[i - 1]
              /\ v.pc = "upload_file" => v.returned = {"metadata"}
              /\ v.pc = "send_message"
                    => v.returned = {"metadata", "upload_file", "get_me",
                                     "resolve_username"}
              /\ (v.rec # NoRec \/ v.result = "ok") => "send_message" \in v.returned
              /\ v.result = "failed"
                    => /\ v.pc = "done"
                       /\ u.pc \in {"measure", "metadata", "upload_file", "get_me",
                                    "resolve_username", "send_message", "done"}
                       /\ "send_message" \notin v.returned
                       /\ v.rec = NoRec]_vars

\* C16: one workflow was aborted by a failed resolution, after its transfer
\* returned Ok, and another ran through the delivery.
C16_AbortedAndCompleted ==
    \E t1, t2 \in UploadIds :
        /\ uploads[t1].result = "failed"
        /\ uploads[t1].returned = {"metadata", "upload_file", "get_me"}
        /\ uploads[t2].result = "ok"
        /\ "send_message" \in uploads[t2].returned

\* C17: every step of every callback and task (select, authenticate, upload
\* with its insert and save, refresh with get_all_files) leaves the records
\* of the previous state as a prefix of the records of the next state.
C17_AppendOnly == [][IsPrefix(records, records')]_vars

\* C17: two inserts were made on a store opened with one record, one of them
\* has been saved, and the list has been read in between or after.
C17_GrownAndRead ==
    /\ Len(records) = 3
    /\ records[1] = OldRecord
    /\ \E t \in UploadIds : uploads[t].saved # ""
    /\ uploaded_files # <<>>

\* C18: a task is spawned with the path that is in the selected_file slot at
\* its trigger, keeps that path for as long as it is in flight whatever is
\* selected meanwhile, and the record it pushes is named after that path.
C18_UploadsFileSelectedAtTrigger ==
    [][\A t \in UploadIds :
          LET u == uploads[t]
              v == uploads'[t]
          IN  /\ (u.pc = "idle" /\ v.pc # "idle") => v.path = selected_file
              /\ (u.pc \notin {"idle", "done"} /\ v.pc # "done") => v.path = u.path
              /\ (u.rec = NoRec /\ v.rec # NoRec)
                    => /\ v.rec.filename = file_name(u.path)
                       /\ v.rec.file_id = FileId(file_name(u.path))]_vars

\* C18: a task triggered on a.txt has pushed its record, named a.txt, while
\* b.txt is in the slot.
C18_OtherFileSelectedInFlight ==
    \E t \in UploadIds :
        /\ uploads[t].pc = "save"
        /\ uploads[t].path = "a.txt"
        /\ uploads[t].rec.filename = "a.txt"
        /\ selected_file = "b.txt"

\* The window's is_authenticated flag: true once a task has set it (line 323;
\* nothing sets it back).
is_authenticated(tasks) ==
    \E t \in AuthIds : LastSet(tasks[t].window, "is_authenticated") = Bool(TRUE)

\* C19: after every step, if is_authenticated is true the client slot holds
\* a handle; a step that writes the slot stores the handle of the attempt that
\* succeeds in that step, after that attempt's connect and authorization
\* check; and a slot that holds a handle holds one after the step.
C19_AuthenticatedImpliesHandle ==
    [][/\ is_authenticated(auths') => client' # NoClient
       /\ client' # client
             => /\ client' \in AuthIds
                /\ auths[client'].result = ""
                /\ auths'[client'].result = "ok"
                /\ {"connect", "is_authorized"} \subseteq auths'[client'].calls
       /\ client # NoClient => client' # NoClient]_vars

\* C19: a second attempt succeeded, with a login code, after a first one had
\* succeeded: the slot holds the second handle and the flag is true.
C19_HandleReplaced ==
    /\ auths[1].result = "ok"
    /\ auths[2].result = "ok"
    /\ "sign_in" \in auths[2].calls
    /\ client = 2
    /\ is_authenticated(auths)

\* The calls of an upload task that go to the remote service.
RemoteCalls == {"upload_file", "get_me", "resolve_username", "send_message"}

\* The task has a remote call running or returned, or has made its record.
CalledOrRecorded(u) ==
    \/ u.pc \in RemoteCalls
    \/ u.returned \cap RemoteCalls # {}
    \/ u.rec # NoRec

\* The task ended with both flags of the window set back.
FlagsSetBack(u) ==
    /\ u.pc = "done"
    /\ LastSet(u.window, "is_uploading") = Bool(FALSE)
    /\ LastSet(u.window, "upload_progress") = Float(0)

\* C20 as stated: a task exists only for a selected file; a task whose
\* trigger found the client slot empty makes no remote call and no record;
\* and a task that ended for want of a client has set is_uploading back to
\* false and the progress back to 0.0.
C20_TriggerWithEmptyClientSlot ==
    \A t \in UploadIds :
        LET u == uploads[t]
        IN  /\ t \in InFlight(uploads) => u.path # None
            /\ (t \in InFlight(uploads) /\ u.client_at_trigger = NoClient)
                  => ~CalledOrRecorded(u)
            /\ u.result = "no_client" => FlagsSetBack(u)

\* C20, amended: a trigger with an empty selected-file slot spawns no task and
\* changes no state; a task that finds the client slot empty when it reads
\* it (line 373) makes no remote call and no record, changes neither the
\* records nor the snapshot file, and ends with is_uploading set back to
\* false and the progress set back to 0.0; a task that finds a handle there
\* goes on with that handle, whatever the slot held at the trigger.
C20_TaskWithEmptyClientSlot ==
    [][/\ selected_file = None => uploads' = uploads
       /\ \A t \in UploadIds :
             LET u == uploads[t]
                 v == uploads'[t]
             IN  /\ (u.pc = "idle" /\ v # u) => (v.pc = "spawned" /\ v.path # None)
                 /\ (u.pc = "spawned" /\ v # u)
                       => IF client = NoClient
                          THEN /\ v.result = "no_client"
                               /\ ~CalledOrRecorded(v)
                               /\ FlagsSetBack(v)
                               /\ ProgressOf(v) = <<>>
                               /\ records' = records
                               /\ dbFile' = dbFile
                          ELSE /\ v.pc = "measure"
                               /\ v.tg_client = client
                 /\ v.result = "no_client"
                       => (~CalledOrRecorded(v) /\ FlagsSetBack(v))]_vars

\* C20: a task was triggered with a file selected and the client slot empty,
\* found the slot still empty and ended, and a later task, triggered with the
\* slot empty as well, found the handle of an authentication that completed
\* in between and is transferring.
C20_EndedWithoutClientAndOvertaken ==
    \E t1, t2 \in UploadIds :
        /\ uploads[t1].result = "no_client"
        /\ FlagsSetBack(uploads[t1])
        /\ selected_file # None
        /\ uploads[t2].pc = "upload_file"
        /\ uploads[t2].client_at_trigger = NoClient

====
